---- MODULE Spec2Model ----
(***************************************************************************)
(* Schelling segregation model: the grid (environment/environment.py), the *)
(* agents (agent/agent.py), the population factory and the metrics         *)
(* (helper.py) and the step engine (run_step of app.py).                   *)
(*                                                                         *)
(* Similarity thresholds are the rationals k / ThresholdDen, held as the   *)
(* numerator k; a similarity fraction s / t is compared with it as         *)
(* s * ThresholdDen >= k * t.                                              *)
(*                                                                         *)
(* The metrics are floating-point numbers.  A float is held as the         *)
(* rational <<num, den>> it denotes, in lowest terms; every division and   *)
(* every addition of the metrics rounds its exact result to the nearest    *)
(* float, ties to even, as the binary64 operations of the interpreter do.  *)
(* The significand has MantissaBits bits, not 53: the rounding is the      *)
(* same, the grain is coarser.                                             *)
(*                                                                         *)
(* Two draws of run_step are held in the form the loop consumes them.      *)
(* random.shuffle(unhappy) fixes the visiting order before the loop and    *)
(* nothing but the loop reads it: unhappy holds the agents not yet         *)
(* visited, and each iteration draws the one the shuffle put next.  The    *)
(* working list empty_cells is read only by random.choice, remove (first   *)
(* occurrence) and append, none of which depends on the order of the       *)
(* list: it is held as a bag, a cell listed twice having two copies.       *)
(***************************************************************************)
EXTENDS Integers, Sequences, FiniteSets, Bags, TLC

VARIABLES
    GRID_SIZE,            \* config.GRID_SIZE, the side of the square grid
    grid,                 \* Environment.grid: [cell -> EMPTY_CELL, type A, type B]
    agents,               \* the population: a sequence of Agent records
    pc,                   \* where the driver of the run is
    call,                 \* the last operation called, its arguments and what it raised
    unhappy,              \* run_step: the unhappy agents not yet visited by the loop
    empty_cells,          \* run_step: the working list of empty cells, as a bag
    step,                 \* st.session_state.step
    segregation_history,  \* st.session_state.segregation_history
    happiness_history,    \* st.session_state.happiness_history
    result,               \* the value returned by the last query
    calls,                \* the number of operations a caller of the grid has made
    initialized,          \* st.session_state.initialized
    running,              \* st.session_state.running
    moves                 \* run_step: the moves of its loop so far, where a record is kept

vars == <<GRID_SIZE, grid, agents, pc, call, unhappy, empty_cells, step,
          segregation_history, happiness_history, result, calls,
         initialized, running, moves>>

----------------------------------------------------------------------------
\* config.py

AGENT_TYPE_A == 1
AGENT_TYPE_B == 2
EMPTY_CELL == 0
NEIGHBORHOOD_RADIUS == 1

\* app.py: the threshold slider moves in steps of 0.05 = 1 / ThresholdDen.
ThresholdDen == 20

----------------------------------------------------------------------------
\* Bounds of the model

MaxAgents == 3
MaxSteps == 2
MaxCalls == 3
MaxGridSide == 4
MantissaBits == 8

\* The grid sides of the runs: up to the smallest torus on which a Moore
\* neighbourhood does not overlap itself.
GridSides == 1..(2 * NEIGHBORHOOD_RADIUS + 1)

\* The grid sides of a caller of the grid, whose operations read no
\* neighbourhood: small enough for the grid to fill up within MaxCalls.
ApiGridSides == {1, 2}

\* The thresholds of the runs: 0.0, 0.3 (the default of the slider and the
\* threshold of the test scenarios), 0.5 and 1.0.
Thresholds == {0, 6, 10, ThresholdDen}

Cells(n) == (0..(n - 1)) \X (0..(n - 1))

Range(seq) == {seq[k] : k \in DOMAIN seq}

NoCall == [op |-> "none", agent |-> 0, x |-> 0, y |-> 0, raised |-> "none"]

----------------------------------------------------------------------------
\* agent/agent.py

Agent(x, y, agent_type, similarity_threshold) ==
    [x |-> x, y |-> y, agent_type |-> agent_type,
     similarity_threshold |-> similarity_threshold]

\* The offsets (dx, dy) of the double loop, dx outermost, the centre skipped.
NeighborOffsets(radius) ==
    LET w == 2 * radius + 1
        all == [k \in 1..(w * w) |-> <<((k - 1) \div w) - radius, ((k - 1) % w) - radius>>]
    IN  SelectSeq(all, LAMBDA o : ~(o[1] = 0 /\ o[2] = 0))

\* The offsets of the neighbourhood of the configuration.
Offsets == NeighborOffsets(NEIGHBORHOOD_RADIUS)

\* get_neighbor_positions stopping at the edges of the grid instead of wrapping.
get_neighbor_positions_Clamped(x, y, n) ==
    LET offs == Offsets
        clamp(v) == IF v < 0 THEN 0 ELSE IF v > n - 1 THEN n - 1 ELSE v
    IN  [k \in 1..Len(offs) |-> <<clamp(x + offs[k][1]), clamp(y + offs[k][2])>>]

get_neighbor_positions(x, y, n) ==
    LET offs == Offsets
    IN  [k \in 1..Len(offs) |-> <<(x + offs[k][1]) % n, (y + offs[k][2]) % n>>]

\* is_happy with a strict comparison.
is_happy_Strict(agent, env, n) ==
    LET neighbor_positions == get_neighbor_positions(agent.x, agent.y, n)
        total_count == Cardinality({k \in DOMAIN neighbor_positions :
                                        env[neighbor_positions[k]] # 0})
        similar_count == Cardinality({k \in DOMAIN neighbor_positions :
                                        /\ env[neighbor_positions[k]] # 0
                                        /\ env[neighbor_positions[k]] = agent.agent_type})
    IN  IF total_count = 0
        THEN FALSE
        ELSE similar_count * ThresholdDen > agent.similarity_threshold * total_count

is_happy(agent, env, n) ==
    LET neighbor_positions == get_neighbor_positions(agent.x, agent.y, n)
        total_count == Cardinality({k \in DOMAIN neighbor_positions :
                                        env[neighbor_positions[k]] # 0})
        similar_count == Cardinality({k \in DOMAIN neighbor_positions :
                                        /\ env[neighbor_positions[k]] # 0
                                        /\ env[neighbor_positions[k]] = agent.agent_type})
    IN  IF total_count = 0
        THEN FALSE
        ELSE similar_count * ThresholdDen >= agent.similarity_threshold * total_count

----------------------------------------------------------------------------
\* environment/environment.py

Environment(n) == [c \in Cells(n) |-> EMPTY_CELL]

\* get_empty_cells returning every cell of the grid.
get_empty_cells_AllCells(env, n) ==
    [k \in 1..(n * n) |-> <<(k - 1) \div n, (k - 1) % n>>]

\* get_empty_cells scanning with y outermost and x innermost.
get_empty_cells_YOutermost(env, n) ==
    LET all == [k \in 1..(n * n) |-> <<(k - 1) % n, (k - 1) \div n>>]
    IN  SelectSeq(all, LAMBDA c : env[c] = EMPTY_CELL)

\* The empty cells in the order of the scan: x outermost, y innermost.
get_empty_cells(env, n) ==
    LET all == [k \in 1..(n * n) |-> <<(k - 1) \div n, (k - 1) % n>>]
    IN  SelectSeq(all, LAMBDA c : env[c] = EMPTY_CELL)

\* place_agent without the check of the target cell.
place_agent_Overwrites(env, ags, i, x, y) ==
    [grid |-> [env EXCEPT ![<<x, y>>] = ags[i].agent_type],
     agents |-> [ags EXCEPT ![i].x = x, ![i].y = y],
     raised |-> "none"]

\* Each mutation returns the grid and the population it leaves, and what it raised.
place_agent(env, ags, i, x, y) ==
    IF env[<<x, y>>] # EMPTY_CELL
    THEN [grid |-> env, agents |-> ags, raised |-> "OccupiedCell"]
    ELSE [grid |-> [env EXCEPT ![<<x, y>>] = ags[i].agent_type],
          agents |-> [ags EXCEPT ![i].x = x, ![i].y = y],
          raised |-> "none"]

remove_agent(env, ags, i) ==
    [grid |-> [env EXCEPT ![<<ags[i].x, ags[i].y>>] = EMPTY_CELL],
     agents |-> ags,
     raised |-> "none"]

\* move_agent that leaves agent.x and agent.y as they were.
move_agent_KeepsPosition(env, ags, i, new_x, new_y) ==
    IF env[<<new_x, new_y>>] # EMPTY_CELL
    THEN [grid |-> env, agents |-> ags, raised |-> "OccupiedCell"]
    ELSE LET cleared == [env EXCEPT ![<<ags[i].x, ags[i].y>>] = EMPTY_CELL]
         IN  [grid |-> [cleared EXCEPT ![<<new_x, new_y>>] = ags[i].agent_type],
              agents |-> ags,
              raised |-> "none"]

\* move_agent that does not clear the old cell.
move_agent_KeepsSource(env, ags, i, new_x, new_y) ==
    IF env[<<new_x, new_y>>] # EMPTY_CELL
    THEN [grid |-> env, agents |-> ags, raised |-> "OccupiedCell"]
    ELSE [grid |-> [env EXCEPT ![<<new_x, new_y>>] = ags[i].agent_type],
          agents |-> [ags EXCEPT ![i].x = new_x, ![i].y = new_y],
          raised |-> "none"]

\* move_agent that clears the old cell before it checks the destination.
move_agent_ClearsFirst(env, ags, i, new_x, new_y) ==
    LET cleared == [env EXCEPT ![<<ags[i].x, ags[i].y>>] = EMPTY_CELL]
    IN  IF cleared[<<new_x, new_y>>] # EMPTY_CELL
        THEN [grid |-> cleared, agents |-> ags, raised |-> "OccupiedCell"]
        ELSE [grid |-> [cleared EXCEPT ![<<new_x, new_y>>] = ags[i].agent_type],
              agents |-> [ags EXCEPT ![i].x = new_x, ![i].y = new_y],
              raised |-> "none"]

move_agent(env, ags, i, new_x, new_y) ==
    IF env[<<new_x, new_y>>] # EMPTY_CELL
    THEN [grid |-> env, agents |-> ags, raised |-> "OccupiedCell"]
    ELSE LET cleared == [env EXCEPT ![<<ags[i].x, ags[i].y>>] = EMPTY_CELL]
         IN  [grid |-> [cleared EXCEPT ![<<new_x, new_y>>] = ags[i].agent_type],
              agents |-> [ags EXCEPT ![i].x = new_x, ![i].y = new_y],
              raised |-> "none"]

count_neighbors(env, x, y, radius, n) ==
    LET offs == NeighborOffsets(radius)
        cell(k) == env[<<(x + offs[k][1]) % n, (y + offs[k][2]) % n>>]
    IN  [type_a |-> Cardinality({k \in DOMAIN offs : cell(k) = AGENT_TYPE_A}),
         type_b |-> Cardinality({k \in DOMAIN offs : cell(k) = AGENT_TYPE_B}),
         empty  |-> Cardinality({k \in DOMAIN offs : cell(k) = EMPTY_CELL})]

----------------------------------------------------------------------------
\* helper.py

create_agents(num_agents_type_a, num_agents_type_b, similarity_threshold) ==
    [k \in 1..(num_agents_type_a + num_agents_type_b) |->
        Agent(0, 0,
              IF k <= num_agents_type_a THEN AGENT_TYPE_A ELSE AGENT_TYPE_B,
              similarity_threshold)]

\* What random.shuffle can leave in the first k places of a list: every
\* sequence of k of its elements, each element taken from a different place.
RECURSIVE ShuffledPrefixes(_, _)
ShuffledPrefixes(list, k) ==
    IF k = 0 \/ Len(list) = 0
    THEN {<<>>}
    ELSE UNION {{<<list[j]>> \o rest :
                    rest \in ShuffledPrefixes(
                        SubSeq(list, 1, j - 1) \o SubSeq(list, j + 1, Len(list)), k - 1)} :
                j \in 1..Len(list)}

\* The loop of randomly_place_agents over the shuffled list, from agent i on;
\* a place_agent that raises ends it.
RECURSIVE PlaceFrom(_, _, _, _)
PlaceFrom(env, ags, shuffled, i) ==
    IF i > Len(ags)
    THEN [grid |-> env, agents |-> ags, raised |-> "none"]
    ELSE LET r == place_agent(env, ags, i, shuffled[i][1], shuffled[i][2])
         IN  IF r.raised # "none" THEN r
             ELSE PlaceFrom(r.grid, r.agents, shuffled, i + 1)

\* randomly_place_agents that places the agents that fit before it raises.
randomly_place_agents_PlacesThenRaises(ags, env, n) ==
    LET empty == get_empty_cells(env, n)
    IN  IF Len(ags) > Len(empty)
        THEN {LET r == PlaceFrom(env, SubSeq(ags, 1, Len(empty)), shuffled, 1)
              IN  [grid |-> r.grid,
                   agents |-> r.agents \o SubSeq(ags, Len(empty) + 1, Len(ags)),
                   raised |-> "NotEnoughEmptyCells"] :
                shuffled \in ShuffledPrefixes(empty, Len(empty))}
        ELSE {PlaceFrom(env, ags, shuffled, 1) :
                shuffled \in ShuffledPrefixes(empty, Len(ags))}

\* randomly_place_agents that also refuses a population that exactly fits.
randomly_place_agents_StrictCapacity(ags, env, n) ==
    LET empty == get_empty_cells(env, n)
    IN  IF Len(ags) >= Len(empty)
        THEN {[grid |-> env, agents |-> ags, raised |-> "NotEnoughEmptyCells"]}
        ELSE {PlaceFrom(env, ags, shuffled, 1) :
                shuffled \in ShuffledPrefixes(empty, Len(ags))}

\* The outcomes of randomly_place_agents, one for each shuffle.
randomly_place_agents(ags, env, n) ==
    LET empty == get_empty_cells(env, n)
    IN  IF Len(ags) > Len(empty)
        THEN {[grid |-> env, agents |-> ags, raised |-> "NotEnoughEmptyCells"]}
        ELSE {PlaceFrom(env, ags, shuffled, 1) :
                shuffled \in ShuffledPrefixes(empty, Len(ags))}

\* get_unhappy_agents returning the happy agents.
get_unhappy_agents_Happy(ags, env, n) ==
    SelectSeq([k \in 1..Len(ags) |-> k], LAMBDA k : is_happy(ags[k], env, n))

\* The indices of the unhappy agents, in population order.
get_unhappy_agents(ags, env, n) ==
    SelectSeq([k \in 1..Len(ags) |-> k], LAMBDA k : ~is_happy(ags[k], env, n))

\* Rationals <<numerator, denominator>> in lowest terms, denominator > 0.
RECURSIVE GCD(_, _)
GCD(a, b) == IF b = 0 THEN a ELSE GCD(b, a % b)

Rat(a, b) == IF a = 0 THEN <<0, 1>> ELSE <<a \div GCD(a, b), b \div GCD(a, b)>>

RatAdd(p, q) == Rat(p[1] * q[2] + q[1] * p[2], p[2] * q[2])

RECURSIVE Pow2(_)
Pow2(k) == IF k = 0 THEN 1 ELSE 2 * Pow2(k - 1)

\* The bounds of an integer significand.
MinSignificand == Pow2(MantissaBits - 1)
MaxSignificand == Pow2(MantissaBits)

\* The binary exponent of a / b (a > 0, b > 0), as the power of two that
\* multiplies (up) or divides (down) the quotient into
\* [MinSignificand, MaxSignificand).
RECURSIVE ScaleUp(_, _)
ScaleUp(a, b) == IF a >= b * MinSignificand THEN 1 ELSE 2 * ScaleUp(2 * a, b)

RECURSIVE ScaleDown(_, _)
ScaleDown(a, b) == IF a < b * MaxSignificand THEN 1 ELSE 2 * ScaleDown(a, 2 * b)

\* a / b (MinSignificand <= a / b < MaxSignificand) rounded to an integer,
\* ties to even.
RoundToEven(a, b) ==
    IF 2 * (a % b) > b \/ (2 * (a % b) = b /\ (a \div b) % 2 = 1)
    THEN (a \div b) + 1
    ELSE a \div b

\* The float nearest to a / b (a >= 0, b > 0): the scaled quotient is rounded
\* to an integer and scaled back.
FloatRound(a, b) ==
    IF a = 0 THEN <<0, 1>>
    ELSE IF a >= b * MinSignificand
    THEN LET down == ScaleDown(a, b) IN Rat(RoundToEven(a, b * down) * down, 1)
    ELSE LET up == ScaleUp(a, b) IN Rat(RoundToEven(a * up, b), up)

\* int / int and float / int: the exact quotient, rounded.
FloatDiv(p, k) == FloatRound(p[1], p[2] * k)

\* float + float: the exact sum, rounded.
FloatAdd(p, q) == LET e == RatAdd(p, q) IN FloatRound(e[1], e[2])

\* Environment.get_occupancy_rate: the cells that are not EMPTY_CELL over all
\* the cells, a float division.
get_occupancy_rate(env, n) ==
    LET occupied == Cardinality({c \in Cells(n) : env[c] # EMPTY_CELL})
        total == n * n
    IN  FloatDiv(<<occupied, 1>>, total)

\* The loop counting an agent without neighbours as a valid agent of similarity 0.
RECURSIVE SegregationFrom_CountsIsolated(_, _, _, _, _, _)
SegregationFrom_CountsIsolated(ags, env, n, i, total_similarity, valid_agents) ==
    IF i > Len(ags)
    THEN IF valid_agents = 0
         THEN <<0, 1>>
         ELSE FloatDiv(total_similarity, valid_agents)
    ELSE LET neighbor_positions == get_neighbor_positions(ags[i].x, ags[i].y, n)
             total_count == Cardinality({k \in DOMAIN neighbor_positions :
                                            env[neighbor_positions[k]] # 0})
             similar_count == Cardinality({k \in DOMAIN neighbor_positions :
                                            /\ env[neighbor_positions[k]] # 0
                                            /\ env[neighbor_positions[k]] = ags[i].agent_type})
         IN  IF total_count > 0
             THEN SegregationFrom_CountsIsolated(ags, env, n, i + 1,
                                  FloatAdd(total_similarity,
                                           FloatDiv(<<similar_count, 1>>, total_count)),
                                  valid_agents + 1)
             ELSE SegregationFrom_CountsIsolated(ags, env, n, i + 1, total_similarity,
                                                 valid_agents + 1)

\* The loop of calculate_segregation_index from agent i on, with its two
\* accumulators; it ends with the returned value.
RECURSIVE SegregationFrom(_, _, _, _, _, _)
SegregationFrom(ags, env, n, i, total_similarity, valid_agents) ==
    IF i > Len(ags)
    THEN IF valid_agents = 0
         THEN <<0, 1>>
         ELSE FloatDiv(total_similarity, valid_agents)
    ELSE LET neighbor_positions == get_neighbor_positions(ags[i].x, ags[i].y, n)
             total_count == Cardinality({k \in DOMAIN neighbor_positions :
                                            env[neighbor_positions[k]] # 0})
             similar_count == Cardinality({k \in DOMAIN neighbor_positions :
                                            /\ env[neighbor_positions[k]] # 0
                                            /\ env[neighbor_positions[k]] = ags[i].agent_type})
         IN  IF total_count > 0
             THEN SegregationFrom(ags, env, n, i + 1,
                                  FloatAdd(total_similarity,
                                           FloatDiv(<<similar_count, 1>>, total_count)),
                                  valid_agents + 1)
             ELSE SegregationFrom(ags, env, n, i + 1, total_similarity, valid_agents)

calculate_segregation_index(ags, env, n) ==
    IF Len(ags) = 0 THEN <<0, 1>> ELSE SegregationFrom(ags, env, n, 1, <<0, 1>>, 0)

\* calculate_happiness_rate dividing by the number of agents that have a neighbour.
calculate_happiness_rate_OverNeighboured(ags, env, n) ==
    IF Len(ags) = 0
    THEN <<0, 1>>
    ELSE LET happy_count == Cardinality({k \in 1..Len(ags) : is_happy(ags[k], env, n)})
             neighboured == Cardinality({k \in 1..Len(ags) :
                                count_neighbors(env, ags[k].x, ags[k].y, 1, n).empty < 8})
         IN  IF neighboured = 0 THEN <<0, 1>> ELSE FloatDiv(<<happy_count, 1>>, neighboured)

calculate_happiness_rate(ags, env, n) ==
    IF Len(ags) = 0
    THEN <<0, 1>>
    ELSE LET happy_count == Cardinality({k \in 1..Len(ags) : is_happy(ags[k], env, n)})
         IN  FloatDiv(<<happy_count, 1>>, Len(ags))

----------------------------------------------------------------------------
\* app.py: run_step, and a run that creates a population, places it at random
\* on an empty grid and steps it.

\* The working list built from a list of cells.
ListToBag(list) ==
    [c \in {list[k] : k \in DOMAIN list} |-> Cardinality({k \in DOMAIN list : list[k] = c})]

\* len(list) of the working list.
BagLen(bag) == BagCardinality(bag)

\* One iteration of the loop of run_step that moved an agent: the agent (its
\* index in the population), the cell it left and the cell it was given.
Move(agent, from, to) == [agent |-> agent, from |-> from, to |-> to]

RunCall(op, raised) == [op |-> op, agent |-> 0, x |-> 0, y |-> 0, raised |-> raised]

Init ==
    /\ GRID_SIZE \in GridSides
    /\ grid = Environment(GRID_SIZE)
    /\ \E num_type_a \in 0..MaxAgents, num_type_b \in 0..MaxAgents,
          similarity_threshold \in Thresholds :
            /\ num_type_a + num_type_b <= MaxAgents
            /\ agents = create_agents(num_type_a, num_type_b, similarity_threshold)
    /\ pc = "created"
    /\ call = NoCall
    /\ unhappy = <<>>
    /\ empty_cells = EmptyBag
    /\ step = 0
    /\ segregation_history = <<>>
    /\ happiness_history = <<>>
    /\ result = "none"
    /\ calls = 0
    /\ initialized = FALSE
    /\ running = FALSE
    /\ moves = <<>>

RandomlyPlaceAgents ==
    /\ pc = "created"
    /\ \E r \in randomly_place_agents(agents, grid, GRID_SIZE) :
        /\ grid' = r.grid
        /\ agents' = r.agents
        /\ call' = RunCall("randomly_place_agents", r.raised)
        /\ pc' = IF r.raised = "none" THEN "idle" ELSE "failed"
        /\ initialized' = IF r.raised = "none" THEN TRUE ELSE initialized
    /\ UNCHANGED <<GRID_SIZE, running, moves, unhappy, empty_cells, step,
                   segregation_history, happiness_history, result, calls>>

\* The statistics without the happiness sample.
UpdateStatistics_NoHappinessSample ==
    /\ segregation_history' =
          Append(segregation_history, calculate_segregation_index(agents', grid', GRID_SIZE))
    /\ happiness_history' = happiness_history
    /\ step' = step + 1

\* The end of run_step: "Update statistics".
UpdateStatistics ==
    /\ segregation_history' =
          Append(segregation_history, calculate_segregation_index(agents', grid', GRID_SIZE))
    /\ happiness_history' =
          Append(happiness_history, calculate_happiness_rate(agents', grid', GRID_SIZE))
    /\ step' = step + 1

\* run_step up to its loop. With no agents it returns at once; with no unhappy
\* agent or no empty cell it goes straight to the statistics.
RunStepBegin ==
    /\ pc = "idle"
    /\ step < MaxSteps
    /\ call' = RunCall("run_step", "none")
    /\ IF Len(agents) = 0
       THEN UNCHANGED <<grid, agents, pc, unhappy, empty_cells, step,
                        segregation_history, happiness_history>>
       ELSE LET unhappy_now == get_unhappy_agents(agents, grid, GRID_SIZE)
                empty_now == get_empty_cells(grid, GRID_SIZE)
            IN  IF Len(empty_now) > 0 /\ Len(unhappy_now) > 0
                THEN /\ unhappy' = unhappy_now
                     /\ empty_cells' = ListToBag(empty_now)
                     /\ pc' = "loop"
                     /\ UNCHANGED <<grid, agents, step, segregation_history,
                                    happiness_history>>
                ELSE /\ UNCHANGED <<grid, agents, pc, unhappy, empty_cells>>
                     /\ UpdateStatistics
    /\ moves' = <<>>
    /\ UNCHANGED <<GRID_SIZE, initialized, running, result, calls>>

\* The iteration without the append of the cell the agent leaves.
RunStepIteration_NoAppend(j, new) ==
    /\ pc = "loop"
    /\ Len(unhappy) > 0
    /\ BagLen(empty_cells) > 0
    /\ LET agent == unhappy[j]
           r == move_agent(grid, agents, agent, new[1], new[2])
       IN  /\ empty_cells' = empty_cells (-) SetToBag({new})
           /\ grid' = r.grid
           /\ agents' = r.agents
           /\ call' = RunCall("move_agent", r.raised)
           /\ pc' = IF r.raised = "none" THEN "loop" ELSE "failed"
           /\ unhappy' = SubSeq(unhappy, 1, j - 1) \o SubSeq(unhappy, j + 1, Len(unhappy))
    /\ UNCHANGED <<GRID_SIZE, initialized, running, step, segregation_history,
                   happiness_history, result, calls>>

\* One iteration of "for agent in unhappy" that moves the agent: unhappy[j] is
\* the agent the shuffle put next, new the cell random.choice draws.
RunStepIteration(j, new) ==
    /\ pc = "loop"
    /\ Len(unhappy) > 0
    /\ BagLen(empty_cells) > 0
    /\ LET agent == unhappy[j]
           r == move_agent(grid, agents, agent, new[1], new[2])
       IN  /\ empty_cells' = (empty_cells (-) SetToBag({new}))
                               (+) SetToBag({<<agents[agent].x, agents[agent].y>>})
           /\ grid' = r.grid
           /\ agents' = r.agents
           /\ call' = RunCall("move_agent", r.raised)
           /\ pc' = IF r.raised = "none" THEN "loop" ELSE "failed"
           /\ unhappy' = SubSeq(unhappy, 1, j - 1) \o SubSeq(unhappy, j + 1, Len(unhappy))
    /\ UNCHANGED <<GRID_SIZE, initialized, running, step, segregation_history,
                   happiness_history, result, calls>>

\* An iteration of the loop, for every agent the shuffle can put next and every
\* cell random.choice can draw.
RunStepMove ==
    \E j \in 1..Len(unhappy), new \in BagToSet(empty_cells) :
        /\ RunStepIteration(j, new)
        /\ UNCHANGED moves

\* The same iteration, keeping the record of the move.
RunStepMoveTraced ==
    \E j \in 1..Len(unhappy), new \in BagToSet(empty_cells) :
        /\ RunStepIteration(j, new)
        /\ moves' = Append(moves, Move(unhappy[j], <<agents[unhappy[j]].x,
                                                     agents[unhappy[j]].y>>, new))

\* The loop is over, by exhaustion of the unhappy agents or by the break on an
\* empty working list: the statistics end the step and its locals are gone.
RunStepEnd ==
    /\ pc = "loop"
    /\ Len(unhappy) = 0 \/ BagLen(empty_cells) = 0
    /\ pc' = "idle"
    /\ call' = RunCall("run_step", "none")
    /\ unhappy' = <<>>
    /\ empty_cells' = EmptyBag
    /\ moves' = <<>>
    /\ UNCHANGED <<GRID_SIZE, initialized, running, grid, agents, result, calls>>
    /\ UpdateStatistics

Next ==
    \/ RandomlyPlaceAgents
    \/ RunStepBegin
    \/ RunStepMove
    \/ RunStepEnd

Spec == Init /\ [][Next]_vars

\* The same run with the record of the moves of each step.
NextTrace ==
    \/ RandomlyPlaceAgents
    \/ RunStepBegin
    \/ RunStepMoveTraced
    \/ RunStepEnd

\* The runs whose moves are recorded: any population of up to MaxAgents agents
\* on the grid of side 2, where every cell is a neighbour of every other but
\* not equally often, and one agent of each type on the grid of side 4, where
\* two agents can be out of each other's reach.
InitTrace ==
    /\ \/ /\ GRID_SIZE = NEIGHBORHOOD_RADIUS + 1
          /\ \E num_type_a \in 0..MaxAgents, num_type_b \in 0..MaxAgents,
                similarity_threshold \in Thresholds :
                /\ num_type_a + num_type_b <= MaxAgents
                /\ agents = create_agents(num_type_a, num_type_b, similarity_threshold)
       \/ /\ GRID_SIZE = 2 * NEIGHBORHOOD_RADIUS + 2
          /\ \E similarity_threshold \in Thresholds :
                agents = create_agents(1, 1, similarity_threshold)
    /\ grid = Environment(GRID_SIZE)
    /\ pc = "created"
    /\ call = NoCall
    /\ unhappy = <<>>
    /\ empty_cells = EmptyBag
    /\ step = 0
    /\ segregation_history = <<>>
    /\ happiness_history = <<>>
    /\ result = "none"
    /\ calls = 0
    /\ initialized = FALSE
    /\ running = FALSE
    /\ moves = <<>>

SpecTrace == InitTrace /\ [][NextTrace]_vars

----------------------------------------------------------------------------
\* A caller of the grid: a population from create_agents and an empty grid, then
\* place_agent, remove_agent, move_agent and randomly_place_agents in any order
\* with any arguments, as the unit tests call them.

InitApi ==
    /\ GRID_SIZE \in ApiGridSides
    /\ grid = Environment(GRID_SIZE)
    /\ \E num_type_a \in 0..MaxAgents, num_type_b \in 0..MaxAgents :
            /\ num_type_a + num_type_b <= MaxAgents
            /\ num_type_a + num_type_b >= 1
            /\ agents = create_agents(num_type_a, num_type_b, 0)
    /\ pc = "api"
    /\ call = NoCall
    /\ unhappy = <<>>
    /\ empty_cells = EmptyBag
    /\ step = 0
    /\ segregation_history = <<>>
    /\ happiness_history = <<>>
    /\ result = "none"
    /\ calls = 0
    /\ initialized = FALSE
    /\ running = FALSE
    /\ moves = <<>>

ApiFrame ==
    /\ calls' = calls + 1
    /\ UNCHANGED <<GRID_SIZE, initialized, running, moves, pc, unhappy, empty_cells, step,
                   segregation_history,
                   happiness_history, result>>

ApiPlaceAgent ==
    /\ pc = "api"
    /\ calls < MaxCalls
    /\ \E i \in 1..Len(agents), c \in Cells(GRID_SIZE) :
        LET r == place_agent(grid, agents, i, c[1], c[2])
        IN  /\ grid' = r.grid
            /\ agents' = r.agents
            /\ call' = [op |-> "place_agent", agent |-> i, x |-> c[1], y |-> c[2],
                        raised |-> r.raised]
    /\ ApiFrame

ApiRemoveAgent ==
    /\ pc = "api"
    /\ calls < MaxCalls
    /\ \E i \in 1..Len(agents) :
        LET r == remove_agent(grid, agents, i)
        IN  /\ grid' = r.grid
            /\ agents' = r.agents
            /\ call' = [op |-> "remove_agent", agent |-> i, x |-> agents[i].x,
                        y |-> agents[i].y, raised |-> r.raised]
    /\ ApiFrame

ApiMoveAgent ==
    /\ pc = "api"
    /\ calls < MaxCalls
    /\ \E i \in 1..Len(agents), c \in Cells(GRID_SIZE) :
        LET r == move_agent(grid, agents, i, c[1], c[2])
        IN  /\ grid' = r.grid
            /\ agents' = r.agents
            /\ call' = [op |-> "move_agent", agent |-> i, x |-> c[1], y |-> c[2],
                        raised |-> r.raised]
    /\ ApiFrame

ApiRandomlyPlaceAgents ==
    /\ pc = "api"
    /\ calls < MaxCalls
    /\ \E r \in randomly_place_agents(agents, grid, GRID_SIZE) :
        /\ grid' = r.grid
        /\ agents' = r.agents
        /\ call' = RunCall("randomly_place_agents", r.raised)
    /\ ApiFrame

NextApi ==
    \/ ApiPlaceAgent
    \/ ApiRemoveAgent
    \/ ApiMoveAgent
    \/ ApiRandomlyPlaceAgents

SpecApi == InitApi /\ [][NextApi]_vars

----------------------------------------------------------------------------
\* The queries on their own: one agent, a grid, and one call of
\* get_neighbor_positions, count_neighbors or is_happy.

\* Grids of side n for the neighbourhood queries: at most one cell occupied.
SparseGrids(n) ==
    {Environment(n)} \cup
    {[Environment(n) EXCEPT ![c] = t] : c \in Cells(n), t \in {AGENT_TYPE_A, AGENT_TYPE_B}}

\* Grids of side n for the happiness queries: the agent on its own cell and
\* anything on the other cells.
GridsAround(n, x, y, agent_type) ==
    {g \in [Cells(n) -> {EMPTY_CELL, AGENT_TYPE_A, AGENT_TYPE_B}] : g[<<x, y>>] = agent_type}

InitQuery ==
    /\ \/ /\ GRID_SIZE \in 1..MaxGridSide
          /\ \E c \in Cells(GRID_SIZE) : agents = <<Agent(c[1], c[2], AGENT_TYPE_A, 0)>>
          /\ grid \in SparseGrids(GRID_SIZE)
       \/ /\ GRID_SIZE = 2 * NEIGHBORHOOD_RADIUS + 1
          /\ \E c \in {<<0, 0>>, <<NEIGHBORHOOD_RADIUS, NEIGHBORHOOD_RADIUS>>},
                agent_type \in {AGENT_TYPE_A, AGENT_TYPE_B},
                similarity_threshold \in Thresholds :
                /\ agents = <<Agent(c[1], c[2], agent_type, similarity_threshold)>>
                /\ grid \in GridsAround(GRID_SIZE, c[1], c[2], agent_type)
    /\ pc = "query"
    /\ call = NoCall
    /\ unhappy = <<>>
    /\ empty_cells = EmptyBag
    /\ step = 0
    /\ segregation_history = <<>>
    /\ happiness_history = <<>>
    /\ result = "none"
    /\ calls = 0
    /\ initialized = FALSE
    /\ running = FALSE
    /\ moves = <<>>

QueryFrame(op) ==
    /\ pc = "query"
    /\ pc' = "answered"
    /\ call' = [op |-> op, agent |-> 1, x |-> agents[1].x, y |-> agents[1].y,
                raised |-> "none"]
    /\ UNCHANGED <<GRID_SIZE, initialized, running, moves, grid, agents, unhappy,
                   empty_cells, step,
                   segregation_history, happiness_history, calls>>

QueryNeighborPositions ==
    /\ QueryFrame("get_neighbor_positions")
    /\ result' = get_neighbor_positions(agents[1].x, agents[1].y, GRID_SIZE)

\* count_neighbors with its default radius.
QueryCountNeighbors ==
    /\ QueryFrame("count_neighbors")
    /\ result' = count_neighbors(grid, agents[1].x, agents[1].y, 1, GRID_SIZE)

QueryIsHappy ==
    /\ QueryFrame("is_happy")
    /\ result' = is_happy(agents[1], grid, GRID_SIZE)

QueryEmptyCells ==
    /\ QueryFrame("get_empty_cells")
    /\ result' = get_empty_cells(grid, GRID_SIZE)

NextQuery ==
    \/ QueryNeighborPositions
    \/ QueryCountNeighbors
    \/ QueryIsHappy
    \/ QueryEmptyCells

SpecQuery == InitQuery /\ [][NextQuery]_vars

----------------------------------------------------------------------------
\* The metrics on their own: a population standing on a grid, and one call of
\* calculate_segregation_index, calculate_happiness_rate or get_unhappy_agents,
\* and, apart, one call of both metrics on the population in another order.

\* The grid sides of the metrics: the torus on which every cell is a neighbour
\* of every other, and the next one, on which two agents can be out of each
\* other's reach.
MetricGridSides == {2 * NEIGHBORHOOD_RADIUS + 1, 2 * NEIGHBORHOOD_RADIUS + 2}

\* The cells the populations stand on, in the order of the grid.
MetricCells == get_empty_cells(Environment(2 * NEIGHBORHOOD_RADIUS + 1),
                               2 * NEIGHBORHOOD_RADIUS + 1)

\* The population standing on the cells of occupied, in the order of the grid.
PopulationOn(occupied, types, similarity_threshold) ==
    LET cells == SelectSeq(MetricCells, LAMBDA c : c \in occupied)
    IN  [k \in 1..Len(cells) |->
            Agent(cells[k][1], cells[k][2], types[cells[k]], similarity_threshold)]

\* The permutations of 1..n.
Orders(n) ==
    {f \in [1..n -> 1..n] : \A i, j \in 1..n : i # j => f[i] # f[j]}

InitMetric ==
    /\ GRID_SIZE \in MetricGridSides
    /\ \E occupied \in SUBSET Range(MetricCells) :
        /\ Cardinality(occupied) <= MaxAgents + 1
        /\ \E types \in [occupied -> {AGENT_TYPE_A, AGENT_TYPE_B}],
              similarity_threshold \in Thresholds :
            /\ agents = PopulationOn(occupied, types, similarity_threshold)
            /\ grid = [c \in Cells(GRID_SIZE) |->
                          IF c \in occupied THEN types[c] ELSE EMPTY_CELL]
    /\ pc = "metric"
    /\ call = NoCall
    /\ unhappy = <<>>
    /\ empty_cells = EmptyBag
    /\ step = 0
    /\ segregation_history = <<>>
    /\ happiness_history = <<>>
    /\ result = "none"
    /\ calls = 0
    /\ initialized = FALSE
    /\ running = FALSE
    /\ moves = <<>>

MetricFrame(op) ==
    /\ pc = "metric"
    /\ pc' = "measured"
    /\ call' = RunCall(op, "none")
    /\ UNCHANGED <<GRID_SIZE, initialized, running, moves, grid, agents, unhappy,
                   empty_cells, step, segregation_history, happiness_history, calls>>

MetricSegregationIndex ==
    /\ MetricFrame("calculate_segregation_index")
    /\ result' = calculate_segregation_index(agents, grid, GRID_SIZE)

MetricHappinessRate ==
    /\ MetricFrame("calculate_happiness_rate")
    /\ result' = calculate_happiness_rate(agents, grid, GRID_SIZE)

MetricUnhappyAgents ==
    /\ MetricFrame("get_unhappy_agents")
    /\ result' = get_unhappy_agents(agents, grid, GRID_SIZE)

NextMetric ==
    \/ MetricSegregationIndex
    \/ MetricHappinessRate
    \/ MetricUnhappyAgents

SpecMetric == InitMetric /\ [][NextMetric]_vars

\* Populations that fill a strip of NEIGHBORHOOD_RADIUS + 1 adjacent rows around
\* the torus of side 4, with any types: every agent has five neighbours. The
\* shared threshold is one of the slider values 0.2, 0.4, 0.6, 0.8, the fifths,
\* which no binary float holds exactly.
StripGridSide == 2 * NEIGHBORHOOD_RADIUS + 2

StripCells ==
    SelectSeq(get_empty_cells(Environment(StripGridSide), StripGridSide),
              LAMBDA c : c[1] <= NEIGHBORHOOD_RADIUS)

FifthThresholds == {k * (ThresholdDen \div 5) : k \in 1..4}

InitStrip ==
    /\ GRID_SIZE = StripGridSide
    /\ \E types \in [Range(StripCells) -> {AGENT_TYPE_A, AGENT_TYPE_B}],
          similarity_threshold \in FifthThresholds :
        /\ agents = [k \in 1..Len(StripCells) |->
                        Agent(StripCells[k][1], StripCells[k][2], types[StripCells[k]],
                              similarity_threshold)]
        /\ grid = [c \in Cells(GRID_SIZE) |->
                      IF c \in Range(StripCells) THEN types[c] ELSE EMPTY_CELL]
    /\ pc = "metric"
    /\ call = NoCall
    /\ unhappy = <<>>
    /\ empty_cells = EmptyBag
    /\ step = 0
    /\ segregation_history = <<>>
    /\ happiness_history = <<>>
    /\ result = "none"
    /\ calls = 0
    /\ initialized = FALSE
    /\ running = FALSE
    /\ moves = <<>>

SpecStrip == InitStrip /\ [][NextMetric]_vars

\* Both metrics of the population listed in another order.
MetricPermuted ==
    /\ MetricFrame("permuted")
    /\ \E f \in Orders(Len(agents)) :
        LET permuted == [k \in 1..Len(agents) |-> agents[f[k]]]
        IN  result' = [segregation |-> calculate_segregation_index(permuted, grid, GRID_SIZE),
                       happiness |-> calculate_happiness_rate(permuted, grid, GRID_SIZE)]

\* The same populations, measured in every order of their list.
NextOrder == MetricPermuted

SpecOrder == InitMetric /\ [][NextOrder]_vars

----------------------------------------------------------------------------
\* The scenarios of the integration tests, at the scale of the model: equal
\* numbers of both types, thresholds 0.3 and 0.7, on grids that such a
\* population fills (side 2) or leaves room on (side 3).

ScenarioGridSides == {NEIGHBORHOOD_RADIUS + 1, 2 * NEIGHBORHOOD_RADIUS + 1}

ScenarioThresholds == {6, 14}

\* The largest number of agents of one type.
ScenarioPerType == (MaxAgents + 1) \div 2

\* Besides, one agent of each type on the grid of side 4, where two agents can
\* be out of each other's reach, also with the threshold 0.0 that any
\* neighbour meets.
InitScenario ==
    /\ \/ /\ GRID_SIZE \in ScenarioGridSides
          /\ \E num_per_type \in 0..ScenarioPerType,
                similarity_threshold \in ScenarioThresholds :
                agents = create_agents(num_per_type, num_per_type, similarity_threshold)
       \/ /\ GRID_SIZE = 2 * NEIGHBORHOOD_RADIUS + 2
          /\ \E similarity_threshold \in ScenarioThresholds \cup {0} :
                agents = create_agents(1, 1, similarity_threshold)
    /\ grid = Environment(GRID_SIZE)
    /\ pc = "created"
    /\ call = NoCall
    /\ unhappy = <<>>
    /\ empty_cells = EmptyBag
    /\ step = 0
    /\ segregation_history = <<>>
    /\ happiness_history = <<>>
    /\ result = "none"
    /\ calls = 0
    /\ initialized = FALSE
    /\ running = FALSE
    /\ moves = <<>>

\* A scenario stepped by run_step.
SpecScenario == InitScenario /\ [][Next]_vars

\* A scenario run to convergence: the loop "for step in range(budget)" of the
\* tests and of the sensitivity analysis, with MaxSteps as its budget, and the
\* metrics taken after it.

\* The top of the loop: the budget is used up, or the iteration begins with
\* its two tests for convergence, each a break.
ConvergeBegin ==
    /\ pc = "idle"
    /\ IF step >= MaxSteps
       THEN /\ pc' = "ended"
            /\ call' = RunCall("exhausted", "none")
            /\ UNCHANGED <<unhappy, empty_cells>>
       ELSE LET unhappy_now == get_unhappy_agents(agents, grid, GRID_SIZE)
                empty_now == get_empty_cells(grid, GRID_SIZE)
            IN  IF Len(unhappy_now) = 0 \/ Len(empty_now) = 0
                THEN /\ pc' = "ended"
                     /\ call' = RunCall("break", "none")
                     /\ UNCHANGED <<unhappy, empty_cells>>
                ELSE /\ pc' = "loop"
                     /\ call' = RunCall("step", "none")
                     /\ unhappy' = unhappy_now
                     /\ empty_cells' = ListToBag(empty_now)
    /\ moves' = <<>>
    /\ UNCHANGED <<GRID_SIZE, initialized, running, grid, agents, step,
                   segregation_history, happiness_history, result, calls>>

\* The inner loop is over: the next iteration of the outer loop.
ConvergeEnd ==
    /\ pc = "loop"
    /\ Len(unhappy) = 0 \/ BagLen(empty_cells) = 0
    /\ pc' = "idle"
    /\ step' = step + 1
    /\ unhappy' = <<>>
    /\ empty_cells' = EmptyBag
    /\ moves' = <<>>
    /\ UNCHANGED <<GRID_SIZE, initialized, running, grid, agents, call,
                   segregation_history, happiness_history, result, calls>>

\* "Record results": the metrics of the state the run ended in.
ConvergeRecord ==
    /\ pc = "ended"
    /\ pc' = "recorded"
    /\ result' = [segregation |-> calculate_segregation_index(agents, grid, GRID_SIZE),
                  happiness |-> calculate_happiness_rate(agents, grid, GRID_SIZE)]
    /\ UNCHANGED <<GRID_SIZE, initialized, running, moves, grid, agents, call, unhappy,
                   empty_cells, step, segregation_history, happiness_history, calls>>

NextConverge ==
    \/ RandomlyPlaceAgents
    \/ ConvergeBegin
    \/ RunStepMove
    \/ ConvergeEnd
    \/ ConvergeRecord

SpecConverge == InitScenario /\ [][NextConverge]_vars

-----------------------------------------------------------------------------
\* app.py: the dashboard. A session is driven by its buttons and, while it is
\* running, by run_step at the end of every run of the script. The grid has
\* side 2 and each population slider goes from 1 to MaxAgents, so that, as in
\* the program (up to 1500 + 1500 agents for 2500 cells), the sliders can ask
\* for more agents than there are cells. The moves of each step are recorded.
\* A session is followed up to the first error raised by run_step.

DashboardGridSide == NEIGHBORHOOD_RADIUS + 1

\* st.session_state.env before any initialization: None.
NoEnvironment == <<>>

\* The values of one population slider: its two ends.
PopulationSlider == {1, MaxAgents}

\* The threshold slider, left at its default of 0.3.
ThresholdSlider == {(3 * ThresholdDen) \div 10}

InitDashboard ==
    /\ GRID_SIZE = DashboardGridSide
    /\ grid = NoEnvironment
    /\ agents = <<>>
    /\ pc = "idle"
    /\ call = NoCall
    /\ unhappy = <<>>
    /\ empty_cells = EmptyBag
    /\ step = 0
    /\ segregation_history = <<>>
    /\ happiness_history = <<>>
    /\ result = "none"
    /\ calls = 0
    /\ initialized = FALSE
    /\ running = FALSE
    /\ moves = <<>>

\* initialize_simulation: the environment and the agents are replaced, then the
\* agents are placed; the statistics are reset and the session is marked
\* initialized only if the placement did not raise.
initialize_simulation(num_type_a, num_type_b, similarity_threshold) ==
    LET env == Environment(GRID_SIZE)
        created == create_agents(num_type_a, num_type_b, similarity_threshold)
    IN  \E r \in randomly_place_agents(created, env, GRID_SIZE) :
            /\ grid' = r.grid
            /\ agents' = r.agents
            /\ call' = RunCall("initialize_simulation", r.raised)
            /\ IF r.raised = "none"
               THEN /\ step' = 0
                    /\ segregation_history' = <<>>
                    /\ happiness_history' = <<>>
                    /\ initialized' = TRUE
               ELSE UNCHANGED <<step, segregation_history, happiness_history, initialized>>

\* The Start button: it initializes a session that is not initialized, and sets
\* the session running unless the initialization raised.
Start ==
    /\ pc = "idle"
    /\ IF ~initialized
       THEN \E num_type_a \in PopulationSlider, num_type_b \in PopulationSlider,
               similarity_threshold \in ThresholdSlider :
                /\ initialize_simulation(num_type_a, num_type_b, similarity_threshold)
                /\ running' = IF call'.raised = "none" THEN TRUE ELSE running
       ELSE /\ running' = TRUE
            /\ call' = RunCall("Start", "none")
            /\ UNCHANGED <<grid, agents, step, segregation_history, happiness_history,
                           initialized>>
    /\ UNCHANGED <<GRID_SIZE, pc, unhappy, empty_cells, result, calls, moves>>

\* The Pause button.
Pause ==
    /\ pc = "idle"
    /\ running' = FALSE
    /\ call' = RunCall("Pause", "none")
    /\ UNCHANGED <<GRID_SIZE, grid, agents, pc, unhappy, empty_cells, step,
                   segregation_history, happiness_history, result, calls, initialized,
                   moves>>

\* The Reset button: it initializes the session again and stops it unless the
\* initialization raised.
Reset ==
    /\ pc = "idle"
    /\ \E num_type_a \in PopulationSlider, num_type_b \in PopulationSlider,
          similarity_threshold \in ThresholdSlider :
            /\ initialize_simulation(num_type_a, num_type_b, similarity_threshold)
            /\ running' = IF call'.raised = "none" THEN FALSE ELSE running
    /\ UNCHANGED <<GRID_SIZE, pc, unhappy, empty_cells, result, calls, moves>>

\* The auto-run at the end of the script: a run_step while the session is running.
AutoRun ==
    /\ running
    /\ RunStepBegin

NextDashboard ==
    \/ Start
    \/ Pause
    \/ Reset
    \/ AutoRun
    \/ RunStepMoveTraced
    \/ RunStepEnd

SpecDashboard == InitDashboard /\ [][NextDashboard]_vars

----------------------------------------------------------------------------
\* Vocabulary of the properties

PositionOf(k) == <<agents[k].x, agents[k].y>>

\* Agent k stands on the grid: the cell it records holds its type.
OnGrid(k) == grid[PositionOf(k)] = agents[k].agent_type

\* The population has been placed and the run has not failed.
Placed == pc \in {"idle", "loop"}

EmptyCount == Cardinality({c \in Cells(GRID_SIZE) : grid[c] = EMPTY_CELL})

\* The cell and the agent the last call named (the next call, when primed).
Dest == <<call.x, call.y>>

\* The eight offsets of a radius-1 Moore neighbourhood.
MooreOffsets == ((-1..1) \X (-1..1)) \ {<<0, 0>>}

Wrapped(x, y, o, n) == <<(x + o[1]) % n, (y + o[2]) % n>>


----------------------------------------------------------------------------
\* C1: after randomly_place_agents on an empty grid and any number of steps (in
\* every state of the run, the states inside a step included), no two agents
\* record the same position and the cell at each agent's position holds the
\* agent's type.
C1_PlacedAgentsDistinctAndOnGrid ==
    Placed =>
        /\ \A i, j \in 1..Len(agents) : i # j => PositionOf(i) # PositionOf(j)
        /\ \A k \in 1..Len(agents) : OnGrid(k)

\* Two agents or more, in the loop of a second or later step, one just moved.
C1_Witness ==
    /\ pc = "loop"
    /\ call.op = "move_agent"
    /\ call.raised = "none"
    /\ step >= 1
    /\ Len(agents) >= 2

\* C2: each of place_agent, remove_agent and move_agent updates the grid and
\* the agent's recorded position in the same call: when it does not raise, the
\* agent it acted on (for remove_agent and move_agent, an agent standing on the
\* grid) then records a position whose cell holds that agent's type.
C2_EachMutationSyncsAgentAndGrid ==
    [][(/\ call'.op \in {"place_agent", "remove_agent", "move_agent"}
        /\ call'.raised = "none"
        /\ call'.op # "place_agent" => OnGrid(call'.agent))
       => LET i == call'.agent
          IN  grid'[<<agents'[i].x, agents'[i].y>>] = agents'[i].agent_type]_vars

\* C3 as stated: a move_agent to an empty destination leaves the agent's
\* former cell EMPTY, the destination holding the agent's type, the agent at
\* the destination, and every other cell and every other agent as they were.
MoveEffect ==
    LET i == call'.agent
        src == PositionOf(i)
    IN  /\ call'.raised = "none"
        /\ grid'[src] = EMPTY_CELL
        /\ grid'[Dest'] = agents[i].agent_type
        /\ <<agents'[i].x, agents'[i].y>> = Dest'
        /\ agents'[i].agent_type = agents[i].agent_type
        /\ agents'[i].similarity_threshold = agents[i].similarity_threshold
        /\ \A c \in Cells(GRID_SIZE) \ {src, Dest'} : grid'[c] = grid[c]
        /\ \A k \in 1..Len(agents) : k # i => agents'[k] = agents[k]
        /\ Len(agents') = Len(agents)

C3_MoveToAnyEmptyCell ==
    [][(call'.op = "move_agent" /\ pc = "api" /\ grid[Dest'] = EMPTY_CELL)
       => MoveEffect]_vars

\* The effect of C3 does hold for every move to an empty destination other
\* than the cell the agent records as its position: the only moves that break
\* it are those of an agent that stands on no cell (never placed, or removed)
\* onto the cell it still records.
C3_MoveToAnotherEmptyCell ==
    [][(/\ call'.op = "move_agent" /\ pc = "api"
        /\ grid[Dest'] = EMPTY_CELL
        /\ Dest' # PositionOf(call'.agent))
       => MoveEffect]_vars

\* An agent standing on the grid has been moved to another cell.
C3_Witness ==
    /\ pc = "api"
    /\ call.op = "move_agent"
    /\ call.raised = "none"
    /\ calls >= 2
    /\ OnGrid(call.agent)
    /\ Cardinality({c \in Cells(GRID_SIZE) : grid[c] # EMPTY_CELL}) = 1

\* C4: a move_agent to an occupied destination raises the occupied-cell error
\* and leaves the whole grid and every agent as they were.
C4_MoveToOccupiedCellRaises ==
    [][(call'.op = "move_agent" /\ pc = "api" /\ grid[Dest'] # EMPTY_CELL)
       => (call'.raised = "OccupiedCell" /\ grid' = grid /\ agents' = agents)]_vars

\* A move_agent has raised, the agent and the occupant of the destination both
\* still on the grid, on different cells.
C4_Witness ==
    /\ pc = "api"
    /\ call.op = "move_agent"
    /\ call.raised = "OccupiedCell"
    /\ OnGrid(call.agent)
    /\ PositionOf(call.agent) # Dest
    /\ grid[Dest] # EMPTY_CELL

\* C5: place_agent on an occupied cell raises the occupied-cell error and
\* changes neither the grid nor any agent; on an empty cell it sets that cell
\* to the agent's type and the agent's position to that cell, and changes no
\* other cell and no other agent.
C5_PlaceAgentContract ==
    [][(call'.op = "place_agent" /\ pc = "api")
       => LET i == call'.agent
          IN  IF grid[Dest'] # EMPTY_CELL
              THEN /\ call'.raised = "OccupiedCell"
                   /\ grid' = grid
                   /\ agents' = agents
              ELSE /\ call'.raised = "none"
                   /\ grid'[Dest'] = agents[i].agent_type
                   /\ <<agents'[i].x, agents'[i].y>> = Dest'
                   /\ agents'[i].agent_type = agents[i].agent_type
                   /\ \A c \in Cells(GRID_SIZE) \ {Dest'} : grid'[c] = grid[c]
                   /\ \A k \in 1..Len(agents) : k # i => agents'[k] = agents[k]]_vars

\* A place_agent has raised on a cell another agent stands on.
C5_Witness ==
    /\ pc = "api"
    /\ call.op = "place_agent"
    /\ call.raised = "OccupiedCell"
    /\ \E k \in 1..Len(agents) : k # call.agent /\ PositionOf(k) = Dest /\ OnGrid(k)

\* C6: randomly_place_agents with more agents than the grid has empty cells
\* raises the capacity error and changes no cell and no agent.
C6_OverCapacityRaisesAndChangesNothing ==
    [][(call'.op = "randomly_place_agents" /\ pc = "api" /\ Len(agents) > EmptyCount)
       => (/\ call'.raised = "NotEnoughEmptyCells"
           /\ grid' = grid
           /\ agents' = agents)]_vars

\* The capacity error on a grid that is neither empty nor full.
C6_Witness ==
    /\ pc = "api"
    /\ call.op = "randomly_place_agents"
    /\ call.raised = "NotEnoughEmptyCells"
    /\ EmptyCount >= 1
    /\ EmptyCount < GRID_SIZE * GRID_SIZE

\* C7: randomly_place_agents with at most as many agents as empty cells does
\* not raise; every agent gets a cell that was empty before the call, no two
\* the same; each of these cells then holds its agent's type, and every cell
\* occupied before the call is unchanged.
C7_PlacementWithinCapacity ==
    [][(call'.op = "randomly_place_agents" /\ pc = "api" /\ Len(agents) <= EmptyCount)
       => (/\ call'.raised = "none"
           /\ Len(agents') = Len(agents)
           /\ \A k \in 1..Len(agents) :
                /\ grid[PositionOf(k)'] = EMPTY_CELL
                /\ grid'[PositionOf(k)'] = agents[k].agent_type
                /\ agents'[k].agent_type = agents[k].agent_type
           /\ \A i, j \in 1..Len(agents) : i # j => PositionOf(i)' # PositionOf(j)'
           /\ \A c \in Cells(GRID_SIZE) : grid[c] # EMPTY_CELL => grid'[c] = grid[c])]_vars

\* A placement of two agents or more that used up every empty cell of a grid
\* that already had an occupant.
C7_Witness ==
    /\ pc = "api"
    /\ call.op = "randomly_place_agents"
    /\ call.raised = "none"
    /\ Len(agents) >= 2
    /\ calls >= 2
    /\ EmptyCount = 0
    /\ \A i, j \in 1..Len(agents) : i # j => PositionOf(i) # PositionOf(j)

\* C8 as stated: on a grid of any side, the radius-1 neighbourhood of any
\* position is 8 distinct cells, none of them the centre, the position's
\* coordinates plus the eight offsets wrapped modulo the side (so at (0,0) it
\* holds (N-1,N-1), (0,N-1) and (N-1,0)); count_neighbors tallies these 8 cells.
NeighborhoodOfEight ==
    LET x == call.x
        y == call.y
        n == GRID_SIZE
        cells == {Wrapped(x, y, o, n) : o \in MooreOffsets}
    IN  /\ (pc = "answered" /\ call.op = "get_neighbor_positions") =>
            /\ Len(result) = 8
            /\ Cardinality(Range(result)) = 8
            /\ <<x, y>> \notin Range(result)
            /\ Range(result) = cells
            /\ (x = 0 /\ y = 0) =>
                    {<<n - 1, n - 1>>, <<0, n - 1>>, <<n - 1, 0>>} \subseteq Range(result)
        /\ (pc = "answered" /\ call.op = "count_neighbors") =>
            /\ result.type_a + result.type_b + result.empty = 8
            /\ Cardinality(cells) = 8
            /\ result.type_a = Cardinality({c \in cells : grid[c] = AGENT_TYPE_A})
            /\ result.type_b = Cardinality({c \in cells : grid[c] = AGENT_TYPE_B})
            /\ result.empty = Cardinality({c \in cells : grid[c] = EMPTY_CELL})

C8_EightDistinctCellsOnAnyGrid == NeighborhoodOfEight

\* C8, amended: the same on every grid of side 3 or more.
C8_EightDistinctCellsFromSideThree == GRID_SIZE >= 3 => NeighborhoodOfEight

\* The neighbourhood of the corner (0,0) of a grid of side 4 or more, wrapped
\* on both axes.
C8_Witness ==
    /\ pc = "answered"
    /\ call.op = "get_neighbor_positions"
    /\ GRID_SIZE >= 4
    /\ call.x = 0 /\ call.y = 0
    /\ <<GRID_SIZE - 1, GRID_SIZE - 1>> \in Range(result)

\* C9: is_happy is true exactly when at least one of the 8 neighbour cells is
\* non-empty and (same-type neighbours) / (non-empty neighbours) >= threshold,
\* the comparison non-strict and the empty cells out of the denominator; with
\* all 8 neighbour cells empty it is false for every threshold, 0 included.
C9_HappyIffEnoughSimilarNeighbours ==
    (pc = "answered" /\ call.op = "is_happy") =>
        LET a == agents[1]
            occupied == {o \in MooreOffsets :
                            grid[Wrapped(a.x, a.y, o, GRID_SIZE)] # EMPTY_CELL}
            same == {o \in occupied :
                            grid[Wrapped(a.x, a.y, o, GRID_SIZE)] = a.agent_type}
        IN  /\ result \in BOOLEAN
            /\ result <=> (/\ Cardinality(occupied) >= 1
                           /\ Cardinality(same) * ThresholdDen
                                >= a.similarity_threshold * Cardinality(occupied))
            /\ Cardinality(occupied) = 0 => result = FALSE

\* An agent with threshold 0 and no neighbour at all, found unhappy.
C9_Witness ==
    /\ pc = "answered"
    /\ call.op = "is_happy"
    /\ agents[1].similarity_threshold = 0
    /\ \A o \in MooreOffsets : grid[Wrapped(agents[1].x, agents[1].y, o, GRID_SIZE)] = EMPTY_CELL
    /\ grid[PositionOf(1)] = agents[1].agent_type
    /\ result = FALSE

\* C10: an agent returned by create_agents, until it is placed, records a
\* position that denotes no cell of the grid.
C10_CreatedAgentsRecordNoCell ==
    pc = "created" => \A k \in 1..Len(agents) : PositionOf(k) \notin Cells(GRID_SIZE)

----------------------------------------------------------------------------
\* Vocabulary of the metrics

\* The offsets at which agent k has a neighbour, and a neighbour of its type.
OccupiedAround(k) ==
    {o \in MooreOffsets :
        grid[Wrapped(agents[k].x, agents[k].y, o, GRID_SIZE)] # EMPTY_CELL}

SameAround(k) ==
    {o \in MooreOffsets :
        grid[Wrapped(agents[k].x, agents[k].y, o, GRID_SIZE)] = agents[k].agent_type}

\* The agents that have at least one non-empty neighbour.
Qualifying == {k \in 1..Len(agents) : OccupiedAround(k) # {}}

\* The agents that meet their threshold.
HappyAgents ==
    {k \in Qualifying :
        Cardinality(SameAround(k)) * ThresholdDen
            >= agents[k].similarity_threshold * Cardinality(OccupiedAround(k))}

\* The sum of the fractions of the qualifying agents among the first k, exact.
RECURSIVE SumOfFractions(_)
SumOfFractions(k) ==
    IF k = 0 THEN <<0, 1>>
    ELSE IF k \in Qualifying
    THEN RatAdd(SumOfFractions(k - 1),
                Rat(Cardinality(SameAround(k)), Cardinality(OccupiedAround(k))))
    ELSE SumOfFractions(k - 1)

\* The mean of the fractions of the qualifying agents, exact.
ExactMean ==
    LET sum == SumOfFractions(Len(agents))
    IN  Rat(sum[1], sum[2] * Cardinality(Qualifying))

\* x is exact up to the rounding of ops floating-point operations on numbers
\* of magnitude at most 1: |x - exact| <= ops / 2^MantissaBits.
WithinRounding(x, exact, ops) ==
    LET diff == x[1] * exact[2] - exact[1] * x[2]
    IN  (IF diff < 0 THEN 0 - diff ELSE diff) <= (ops * x[2] * exact[2]) \div MaxSignificand

InUnitInterval(x) == x[1] >= 0 /\ x[2] > 0 /\ x[1] <= x[2]

\* C11: calculate_segregation_index returns the mean, over the agents that
\* have at least one non-empty neighbour, of the fraction of same-type cells
\* among the non-empty neighbours (up to the rounding of its floating-point
\* operations); it is exactly 0.0 when no agent qualifies, the empty
\* population included, and it always lies in [0, 1].
C11_SegregationIndexIsMeanOverNeighboured ==
    (pc = "measured" /\ call.op = "calculate_segregation_index") =>
        /\ InUnitInterval(result)
        /\ Qualifying = {} => result = <<0, 1>>
        /\ Qualifying # {} => WithinRounding(result, ExactMean, Len(agents) + 3)

\* The index of a population of which one agent has no neighbour and the
\* others are partly among their own.
C11_Witness ==
    /\ pc = "measured"
    /\ call.op = "calculate_segregation_index"
    /\ Qualifying # {}
    /\ Qualifying # 1..Len(agents)
    /\ result[1] > 0
    /\ result[1] < result[2]

\* C12: calculate_happiness_rate returns (happy agents) / (agents), in [0, 1],
\* and 0.0 for the empty population; get_unhappy_agents returns, in the order
\* of the population, exactly the agents that are not happy: the rate is
\* 1 - |unhappy| / |population|.
C12_HappinessRateAndUnhappyAgents ==
    /\ (pc = "measured" /\ call.op = "calculate_happiness_rate") =>
        /\ InUnitInterval(result)
        /\ Len(agents) = 0 => result = <<0, 1>>
        /\ Len(agents) > 0 =>
              WithinRounding(result, Rat(Cardinality(HappyAgents), Len(agents)), 1)
    /\ (pc = "measured" /\ call.op = "get_unhappy_agents") =>
        /\ Range(result) = (1..Len(agents)) \ HappyAgents
        /\ \A i, j \in 1..Len(result) : i < j => result[i] < result[j]

\* The rate of a population with happy and unhappy agents.
C12_Witness ==
    /\ pc = "measured"
    /\ call.op = "calculate_happiness_rate"
    /\ HappyAgents # {}
    /\ HappyAgents # 1..Len(agents)
    /\ Qualifying # HappyAgents
    /\ result[1] > 0
    /\ result[1] < result[2]

\* C13: on a fixed grid, calculate_happiness_rate and
\* calculate_segregation_index return the same value for every permutation of
\* the population list.
C13_MetricsIndependentOfOrder ==
    (pc = "measured" /\ call.op = "permuted") =>
        /\ result.happiness = calculate_happiness_rate(agents, grid, GRID_SIZE)
        /\ result.segregation = calculate_segregation_index(agents, grid, GRID_SIZE)

----------------------------------------------------------------------------
\* Vocabulary of the steps

\* No agent of the population is unhappy.
AllHappy == HappyAgents = 1..Len(agents)

\* The cells of the grid that hold no agent.
EmptyCellsOfGrid == {c \in Cells(GRID_SIZE) : grid[c] = EMPTY_CELL}

\* C14: a step run in a state where no agent is unhappy leaves the grid and
\* every agent where they are, and the state it ends in is again one where no
\* agent is unhappy: every further step does the same.
C14_StepWithNoUnhappyAgentIsNoOp ==
    [][(pc = "idle" /\ AllHappy)
       => (grid' = grid /\ agents' = agents /\ pc' = "idle" /\ AllHappy')]_vars

\* Two agents or more, all happy, after MaxSteps steps of which the last began
\* with every agent happy.
C14_Witness ==
    /\ pc = "idle"
    /\ step = MaxSteps
    /\ step >= 2
    /\ Len(agents) >= 2
    /\ AllHappy
    /\ happiness_history[step - 1] = <<1, 1>>
    /\ happiness_history[step] = <<1, 1>>

\* C16: in a step begun in a consistent state move_agent never raises: at
\* every iteration of the relocation loop the working list of empty cells
\* holds exactly the cells that are empty on the grid at that moment, each
\* once.
C16_WorkingListIsTheEmptyCells ==
    /\ pc = "loop" => empty_cells = SetToBag(EmptyCellsOfGrid)
    /\ call.op = "move_agent" => call.raised = "none"
    /\ pc = "failed" => call.op = "randomly_place_agents"

\* Inside the loop, after a move, with another unhappy agent still to move.
C16_Witness ==
    /\ pc = "loop"
    /\ call.op = "move_agent"
    /\ call.raised = "none"
    /\ Len(unhappy) > 0
    /\ BagLen(empty_cells) > 1

\* C17: the driver stops at the first step that is a no-op: once the state has
\* no unhappy agent, or no empty cell, no further step is executed.
C17_NoStepAfterConvergence ==
    [][(pc = "idle" /\ Len(agents) > 0 /\ (AllHappy \/ EmptyCellsOfGrid = {}))
       => (step' = step /\ segregation_history' = segregation_history
                        /\ happiness_history' = happiness_history)]_vars

\* C18: both time series have the length of the step counter, and every step
\* that is counted appends to each the metric of the state the step ends in.
C18_OneSamplePerStep ==
    [][/\ Len(segregation_history') = step'
       /\ Len(happiness_history') = step'
       /\ step' # step =>
            /\ step' = step + 1
            /\ segregation_history' =
                  Append(segregation_history,
                         calculate_segregation_index(agents', grid', GRID_SIZE))
            /\ happiness_history' =
                  Append(happiness_history,
                         calculate_happiness_rate(agents', grid', GRID_SIZE))]_vars

\* Two steps counted, the second after relocations that changed the metrics.
C18_Witness ==
    /\ pc = "idle"
    /\ step = 2
    /\ Len(segregation_history) = 2
    /\ Len(happiness_history) = 2
    /\ segregation_history[1] # segregation_history[2]
    /\ happiness_history[1] # happiness_history[2]

\* C15: a step run in a state where the grid has no empty cell leaves the grid
\* and every agent where they are, however many agents are unhappy.
C15_StepOnFullGridIsNoOp ==
    [][(pc = "idle" /\ EmptyCellsOfGrid = {})
       => (grid' = grid /\ agents' = agents /\ pc' = "idle")]_vars

\* A full grid with unhappy agents on it, after a step.
C15_Witness ==
    /\ pc = "idle"
    /\ step >= 1
    /\ EmptyCellsOfGrid = {}
    /\ Len(agents) > 1
    /\ ~AllHappy

----------------------------------------------------------------------------
\* Vocabulary of the runs to convergence

\* The run is over: its loop has been left.
RunOver == pc \in {"ended", "recorded"}

Converged == AllHappy \/ EmptyCellsOfGrid = {}

\* x > p / q and x >= p / q for a float x.
GreaterThan(x, p, q) == x[1] * q > p * x[2]

AtLeast(x, p, q) == x[1] * q >= p * x[2]

\* C19: a run (random placement, then steps until convergence or until the
\* budget is used up) terminates in a state with no unhappy agent or no empty
\* cell.
C19_RunEndsConverged == RunOver => Converged

\* What is left of a run, as a natural number: the steps of the budget not
\* yet begun, each worth one iteration per agent and its two ends, then the
\* iterations left of the step under way, then the record.
RunRank ==
    LET perStep == Len(agents) + 2
    IN  CASE pc = "created" -> (MaxSteps + 2) * perStep + 2
          [] pc = "idle"    -> (MaxSteps - step + 1) * perStep + 2
          [] pc = "loop"    -> (MaxSteps - step) * perStep + 3 + Len(unhappy)
          [] pc = "ended"   -> 1
          [] OTHER          -> 0

\* C19, amended: a run terminates (every action of it lowers RunRank, which
\* is never negative) without an error; when it leaves its loop before the
\* budget is used up, it is in a state with no unhappy agent or no empty cell.
C19_RunEndsAndBreakMeansConverged ==
    /\ [][RunRank' < RunRank]_vars
    /\ [](RunRank >= 0 /\ pc # "failed")
    /\ [](RunOver /\ call.op = "break" => Converged)

\* A run that ended by a break, every agent happy, after at least one step of
\* relocations.
C19_Witness ==
    /\ pc = "recorded"
    /\ call.op = "break"
    /\ step >= 1
    /\ Len(agents) > 1
    /\ EmptyCellsOfGrid # {}
    /\ AllHappy

\* C20: with threshold 0.3 and equal numbers of both types, a run to
\* convergence ends with a segregation index above 0.5.
C20_MildPreferenceSegregates ==
    (/\ pc = "recorded"
     /\ call.op = "break"
     /\ Len(agents) > 0
     /\ \A k \in 1..Len(agents) : agents[k].similarity_threshold = 6)
        => GreaterThan(result.segregation, 1, 2)

\* C20, amended: with threshold 0.3, a run of a non-empty population that
\* ends because no agent is unhappy ends with a segregation index of at
\* least 0.3.
C20_ConvergedIndexAtLeastThreshold ==
    (/\ pc = "recorded"
     /\ call.op = "break"
     /\ Len(agents) > 0
     /\ EmptyCellsOfGrid # {}
     /\ \A k \in 1..Len(agents) : agents[k].similarity_threshold = 6)
        => AtLeast(result.segregation, 3, 10)

\* A run at threshold 0.3, two agents of each type, that ended with every
\* agent happy and recorded an index that is not above 0.5.
C20_Witness ==
    /\ pc = "recorded"
    /\ call.op = "break"
    /\ AllHappy
    /\ Len(agents) > 2
    /\ EmptyCellsOfGrid # {}
    /\ \A k \in 1..Len(agents) : agents[k].similarity_threshold = 6
    /\ ~GreaterThan(result.segregation, 1, 2)

\* ---------------------------------------------------------------------------
\* The scan for empty cells.

\* Cell c comes before cell d in the scan: smaller x, or equal x and smaller y.
ScansBefore(c, d) == c[1] < d[1] \/ (c[1] = d[1] /\ c[2] < d[2])

\* C21: get_empty_cells returns exactly the cells whose value is EMPTY_CELL,
\* each of them once, in ascending order of x and then of y; on a grid with no
\* agent on it the answer has GRID_SIZE * GRID_SIZE cells.
C21_EmptyCellsExactlyOnceInScanOrder ==
    (pc = "answered" /\ call.op = "get_empty_cells") =>
        /\ Range(result) = {c \in Cells(GRID_SIZE) : grid[c] = EMPTY_CELL}
        /\ \A i, j \in 1..Len(result) : i < j => ScansBefore(result[i], result[j])
        /\ (grid = Environment(GRID_SIZE)) => Len(result) = GRID_SIZE * GRID_SIZE

\* An answer of several empty cells in more than one row and more than one
\* column, on a grid that also holds agents.
C21_Witness ==
    /\ pc = "answered"
    /\ call.op = "get_empty_cells"
    /\ Len(result) > 2
    /\ Len(result) < GRID_SIZE * GRID_SIZE - 1
    /\ \E i, j \in 1..Len(result) : result[i][1] < result[j][1] /\ result[i][2] > result[j][2]

\* ---------------------------------------------------------------------------
\* Conservation of the population.

CellsOfType(agent_type) == {c \in Cells(GRID_SIZE) : grid[c] = agent_type}

AgentsOfType(agent_type) == {k \in 1..Len(agents) : agents[k].agent_type = agent_type}

\* C24: after the random placement on an empty grid and through every step,
\* the cells holding AGENT_TYPE_A are as many as the agents of that type, and
\* likewise for AGENT_TYPE_B; the number of empty cells and the value of
\* get_occupancy_rate are the same after every move and every step.
C24_StepsConserveThePopulation ==
    /\ [](Placed => /\ Cardinality(CellsOfType(AGENT_TYPE_A)) =
                          Cardinality(AgentsOfType(AGENT_TYPE_A))
                     /\ Cardinality(CellsOfType(AGENT_TYPE_B)) =
                          Cardinality(AgentsOfType(AGENT_TYPE_B)))
    /\ [][(Placed /\ Placed') =>
              /\ EmptyCount' = EmptyCount
              /\ get_occupancy_rate(grid', GRID_SIZE) = get_occupancy_rate(grid, GRID_SIZE)]_vars

\* An agent has just been moved, in a second step, on a grid with agents of both
\* types and more than one empty cell.
C24_Witness ==
    /\ pc = "loop"
    /\ call.op = "move_agent"
    /\ step >= 1
    /\ AgentsOfType(AGENT_TYPE_A) # {}
    /\ AgentsOfType(AGENT_TYPE_B) # {}
    /\ EmptyCount > 1
    /\ get_occupancy_rate(grid, GRID_SIZE)[1] > 0

\* ---------------------------------------------------------------------------
\* The moves of one step.

\* The cells random.choice can draw now.
Pool == BagToSet(empty_cells)

\* C22: within one step the pool of destinations changes move by move. A cell
\* an agent left is in the pool until a later move of the step takes it, so an
\* agent relocated later can be given it; a cell given as a destination is out
\* of the pool, and no later move of the step is given it, unless its occupant
\* has moved away in between.
C22_PoolChangesMoveByMove ==
    \A i \in 1..Len(moves) :
        /\ pc = "loop" =>
            /\ moves[i].from \in Pool <=>
                    ~ \E j \in (i + 1)..Len(moves) : moves[j].to = moves[i].from
            /\ moves[i].to \in Pool =>
                    \E k \in (i + 1)..Len(moves) : moves[k].from = moves[i].to
        /\ \A j \in (i + 1)..Len(moves) :
                moves[j].to = moves[i].to =>
                    \E k \in (i + 1)..(j - 1) : moves[k].from = moves[i].to

\* A later move of the step has been given the cell an earlier move left, with
\* a third cell still in the pool.
C22_Witness ==
    /\ pc = "loop"
    /\ call.raised = "none"
    /\ \E i, j \in 1..Len(moves) : i < j /\ moves[j].to = moves[i].from
    /\ Cardinality(Pool) > 1

\* The agents the loop has moved so far in this step.
MovedAgents == {moves[i].agent : i \in 1..Len(moves)}

\* The agents that do not meet their threshold or have no neighbour.
UnhappyAgents == (1..Len(agents)) \ HappyAgents

\* The grid and the last mover as they were before the last move of the step.
GridBeforeLastMove ==
    LET last == moves[Len(moves)]
    IN  [grid EXCEPT ![last.to] = EMPTY_CELL, ![last.from] = agents[last.agent].agent_type]

LastMoverBefore ==
    LET last == moves[Len(moves)]
    IN  [agents[last.agent] EXCEPT !.x = last.from[1], !.y = last.from[2]]

\* C23: in a step that starts with an empty cell and an unhappy agent, the
\* working list of empty cells keeps its length and is never found empty, so
\* the loop ends only when every unhappy agent has been visited. The agents
\* the loop starts with are the agents unhappy at the start of the step; each
\* move takes one of them off the list and puts it on a cell other than its
\* own, whether or not it is still unhappy, and changes no other agent. So the
\* agents whose position changes are exactly the agents unhappy at the start,
\* each moved once, and no agent happy at the start moves.
C23_ExactlyTheUnhappyAtStartMoveOnce ==
    /\ [](pc = "loop" =>
            /\ BagLen(empty_cells) > 0
            /\ MovedAgents \cap Range(unhappy) = {}
            /\ Cardinality(MovedAgents) = Len(moves)
            /\ \A i \in 1..Len(moves) :
                    /\ PositionOf(moves[i].agent) = moves[i].to
                    /\ moves[i].to # moves[i].from)
    /\ [][/\ (pc = "idle" /\ pc' = "loop") =>
                /\ Range(unhappy') = UnhappyAgents
                /\ Len(unhappy') = Cardinality(UnhappyAgents)
                /\ moves' = <<>>
          /\ (pc = "loop" /\ pc' = "loop") =>
                /\ BagLen(empty_cells') = BagLen(empty_cells)
                /\ Len(moves') = Len(moves) + 1
                /\ MovedAgents' \cup Range(unhappy') = MovedAgents \cup Range(unhappy)
                /\ \A k \in (1..Len(agents)) \ (MovedAgents' \ MovedAgents) :
                        agents'[k] = agents[k]
          /\ (pc = "loop" /\ pc' # "loop") =>
                /\ pc' = "idle"
                /\ Len(unhappy) = 0
                /\ agents' = agents
                /\ grid' = grid]_vars

\* Every agent unhappy at the start of the step has been moved; the last of
\* them had been made happy by the moves before its own and was moved all the
\* same, and an agent happy at the start is where it was.
C23_Witness ==
    /\ pc = "loop"
    /\ Len(unhappy) = 0
    /\ Len(moves) >= 2
    /\ is_happy(LastMoverBefore, GridBeforeLastMove, GRID_SIZE)
    /\ MovedAgents # 1..Len(agents)

\* ---------------------------------------------------------------------------
\* The dashboard.

\* The stored agents stand on pairwise distinct cells of the stored environment,
\* each cell holding the type of its agent.
SessionConsistent ==
    /\ \A k \in 1..Len(agents) : OnGrid(k)
    /\ \A k, l \in 1..Len(agents) : k # l => PositionOf(k) # PositionOf(l)

\* C26: whatever the buttons pressed and the sliders, a session marked
\* initialized stores agents that stand on pairwise distinct cells of the stored
\* environment, each cell holding its agent's type; run_step never raises the
\* occupied-cell error; and a Reset of an initialized session whose placement
\* raises leaves the stored environment and the stored agents as they were.
\* (Only Reset initializes a session that is initialized.)
C26_InitializedSessionIsConsistent ==
    /\ [](initialized => SessionConsistent)
    /\ [](call.raised # "OccupiedCell")
    /\ [][(initialized /\ call'.op = "initialize_simulation" /\ call'.raised # "none") =>
              (grid' = grid /\ agents' = agents)]_vars

\* ---------------------------------------------------------------------------
\* The metrics of an all-happy state.

\* The float the shared threshold is.
ThresholdFloat == FloatRound(agents[1].similarity_threshold, ThresholdDen)

\* C25: in every state where all the agents of a non-empty population with a
\* shared threshold are happy, calculate_segregation_index returns at least
\* the threshold and calculate_happiness_rate returns exactly 1.
C25_AllHappyIndexAtLeastThreshold ==
    (pc = "measured" /\ Len(agents) > 0 /\ AllHappy) =>
        /\ call.op = "calculate_segregation_index" =>
                AtLeast(result, ThresholdFloat[1], ThresholdFloat[2])
        /\ call.op = "calculate_happiness_rate" => result = <<1, 1>>

====
